---- MODULE Spec2Model ----
(***************************************************************************)
(* The monitoring pipeline of src/main.py: video_capture() opens the       *)
(* stream, reads one frame, runs model_predict() on it, and for every      *)
(* detected object that passes the filter calls mail_trigger() and         *)
(* database_entry(); it then sleeps delay_time and calls itself.           *)
(*                                                                         *)
(* A confidence x is given by conf, the whole thousandths in it            *)
(* (floor(1000 x): 504 for 0.504 and for 0.5049), and exact, whether x is  *)
(* that many thousandths exactly; probabilities (the value round(conf, 2)  *)
(* of line 114) are in hundredths (50 is 0.50), time is in seconds.        *)
(* The libraries the program calls (cv2, ultralytics, smtplib,   *)
(* matplotlib, pymysql, the file system) are the environment: each call    *)
(* either returns or raises, chosen nondeterministically.                  *)
(***************************************************************************)
EXTENDS Integers, Sequences, FiniteSets, TLC

\* The interpreter's limit on nested calls (1000 in CPython), scaled down
\* and counted in activations of video_capture(): the number of nested
\* activations in which the load_config() of line 48 still fits on the
\* stack when config.json is valid.  The load_config() of line 104 is
\* called one frame deeper, from model_predict(), and fits in one
\* activation less.
RecursionLimit == 3

\* delay_time, line 73.
DelayTime == 30

\* The literal 0.5 of lines 67 and 116, in hundredths.
Threshold == 50

\* Raw detections (class, confidence) the detector can return for a frame.
\* Only 0.5 is a binary fraction; the others are the floats next to the
\* decimal, here a little above it (I505 is the float64 nearest 0.505).
I400 == [cls |-> "Intruder", conf |-> 400, exact |-> FALSE]
I500 == [cls |-> "Intruder", conf |-> 500, exact |-> TRUE]
I504 == [cls |-> "Intruder", conf |-> 504, exact |-> FALSE]
I505 == [cls |-> "Intruder", conf |-> 505, exact |-> FALSE]
I510 == [cls |-> "Intruder", conf |-> 510, exact |-> FALSE]
I830 == [cls |-> "Intruder", conf |-> 830, exact |-> FALSE]
P830 == [cls |-> "Person", conf |-> 830, exact |-> FALSE]

FrameInputs ==
    { <<>>, <<I400>>, <<I500>>, <<I504>>, <<I505>>, <<I510>>, <<I830>>,
      <<P830>>, <<I830, I510>>, <<I504, I510>>, <<P830, I830>> }

\* How long a completed SMTP exchange of mail_trigger can take; the other
\* statements of the program take no time but the sleep of line 74.
SendTimes == {0, 5}

\* Outcomes of mail_trigger: the message is sent, or a call raises.
\* compose_error: a statement of lines 152-182 raises (a missing config key,
\* plt.imshow or plt.savefig rejecting the image); stack_error: the stack is
\* exhausted under a library call of these lines (the email classes nest
\* deeper than load_config, by a depth that is the library's); the others
\* are raised by lines 186-189 (SMTP(), starttls()/login(), send_message()).
MailOutcomes ==
    {"sent", "connect_error", "auth_error", "send_error", "compose_error",
     "stack_error"}

\* Outcomes of database_entry: the row is committed, or a call raises
\* (connect() 220, cvtColor/imencode 227-228, execute() 232, commit() 233).
DbOutcomes ==
    {"stored", "connect_error", "convert_error", "insert_error", "commit_error"}

VARIABLES
    pc,               \* position of the single thread of control
    depth,            \* nested activations of video_capture()
    sessions,         \* activations that got past lines 48-49
    clock,            \* wall clock, seconds
    ret,              \* result of the last video.read()
    reads,            \* frames read successfully so far
    image_data,       \* the encoded frame of line 59
    boxes,            \* prediction.boxes of the current frame
    detected_objects, \* what model_predict returned
    idx,              \* position of the for loop of line 62
    timestamp,        \* the timestamp of line 68
    mailCalls,        \* the calls of mail_trigger, in order
    dbCalls,          \* the calls of database_entry, in order
    intruder_log,     \* the committed rows of the table
    connections,      \* database connections open
    streams,          \* stream handles open
    configLoads,      \* calls of load_config()
    modelLoads,       \* constructions of YOLO(...)
    stdout,           \* the lines printed
    crash             \* the exception that ended the process, or "none"

vars ==
    << pc, depth, sessions, clock, ret, reads, image_data, boxes,
       detected_objects, idx, timestamp, mailCalls, dbCalls, intruder_log,
       connections, streams, configLoads, modelLoads, stdout, crash >>

NoImage == [src |-> 0, swaps |-> 0, enc |-> 0]
NoTime == [dd |-> 0, hh |-> 0, mm |-> 0, ss |-> 0]

\* An image is the frame it comes from, the number of BGR<->RGB channel
\* swaps applied to it and the number of JPEG encodings applied to it.
cvtColor(img) == [img EXCEPT !.swaps = @ + 1]
imencode(img) == [img EXCEPT !.enc = @ + 1]

\* strftime('%Y-%m-%d %H:%M:%S') of line 68: the date and the time of day,
\* to the second.
strftime(t) ==
    [dd |-> t \div 86400, hh |-> (t % 86400) \div 3600,
     mm |-> (t % 3600) \div 60, ss |-> t % 60]

\* strptime(..., "%Y-%m-%d %H:%M:%S") of line 159.
strptime(ts) == ts.dd * 86400 + ts.hh * 3600 + ts.mm * 60 + ts.ss

\* round(x, 2) of line 114, in hundredths: the hundredth nearest to the
\* float itself.  x has c whole thousandths and is exactly c thousandths iff
\* exact; it is half-way between two hundredths only when it is exactly
\* ...5 thousandths (0.125, 0.375, 0.625, 0.875), and then goes to the even
\* one.  A float next to a decimal ...5 is above or below it, which shows in
\* c: the float32 nearest 0.505 has 504 whole thousandths, the float64 505.
round2(c, exact) ==
    LET q == c \div 10
        r == c % 10
    IN  IF r < 5 THEN q
        ELSE IF r > 5 \/ ~exact THEN q + 1
        ELSE IF q % 2 = 0 THEN q ELSE q + 1

\* The condition of line 116.
PredictAdmits(class_name, probability) ==
    class_name = "Intruder" /\ probability > Threshold

\* The condition of line 67.
CaptureAdmits(detected_object) ==
    detected_object.class = "Intruder" /\ detected_object.probability > Threshold

\* Lines 110-122: the detected objects of a list of boxes.  box is the
\* position of the box in prediction.boxes.
RECURSIVE DetectedFrom(_, _)
DetectedFrom(bs, box) ==
    IF box > Len(bs) THEN <<>>
    ELSE LET probability == round2(bs[box].conf, bs[box].exact)
             rest == DetectedFrom(bs, box + 1)
         IN  IF PredictAdmits(bs[box].cls, probability)
             THEN << [class |-> bs[box].cls, probability |-> probability,
                      box |-> box] >> \o rest
             ELSE rest

\* Lines 185-193: the outcomes the try statement covers.
MailCaught(outcome) ==
    outcome \in {"connect_error", "auth_error", "send_error"}

\* Line 220: the outcomes in which connect() returned a connection.
DbConnected(outcome) == outcome # "connect_error"

\* Lines 235-236: the outcomes in which close() is reached.
DbClosed(outcome) == outcome = "stored"

Init ==
    /\ pc = "call"
    /\ depth = 0
    /\ sessions = 0
    /\ clock = 0
    /\ ret = FALSE
    /\ reads = 0
    /\ image_data = NoImage
    /\ boxes = <<>>
    /\ detected_objects = <<>>
    /\ idx = 0
    /\ timestamp = NoTime
    /\ mailCalls = <<>>
    /\ dbCalls = <<>>
    /\ intruder_log = <<>>
    /\ connections = 0
    /\ streams = 0
    /\ configLoads = 0
    /\ modelLoads = 0
    /\ stdout = <<>>
    /\ crash = "none"

\* An exception nobody catches ends the process.
Raise(exc) ==
    /\ pc' = "crashed"
    /\ crash' = exc

\* The states load_config() can find config.json in: a valid file (the
\* flat object the program reads its keys from), no file, a valid object
\* followed by more text, text that starts no JSON value (an empty file,
\* plain words, an object cut off where a value is due), a malformed
\* object (a key without its quotes).
ConfigFiles ==
    {"valid", "missing", "extra_data", "no_value", "malformed_object"}

\* The frames lines 27-28 take for the file, counted from what they take
\* for a valid one (CPython 3.11): open() of a missing file raises four
\* frames before a successful open() returns; json.load() reports text
\* after the object at the depth at which it parses the object, text that
\* starts no value one frame deeper and a malformed object three frames
\* deeper.
ExtraFrames(file) ==
    CASE file = "missing" -> -4
      [] file = "no_value" -> 1
      [] file = "malformed_object" -> 3
      [] OTHER -> 0

\* Lines 27-28 reached from line 48 (called_from = 0) or from line 104
\* (called_from = 1, one frame deeper): whether what load_config() calls
\* for the file still fits on the stack in the activation at depth d.
ConfigFits(d, called_from, file) ==
    d + called_from + ExtraFrames(file) <= RecursionLimit

\* Lines 27-29: load_config() returns the configuration ("config") or
\* raises: the stack runs out under open() or json.load(), or the file is
\* missing (FileNotFoundError) or invalid (JSONDecodeError).
load_config(d, called_from, file) ==
    IF ~ConfigFits(d, called_from, file) THEN "RecursionError"
    ELSE IF file = "valid" THEN "config"
    ELSE "ConfigurationError"

\* Lines 250 and 76, then 48-49: video_capture() is called, loads the
\* configuration and opens the stream.  The call itself always fits: the
\* caller's load_config() ran at the depth of the new activation.  The
\* stack can run out inside the load_config() of the new activation.
video_capture_call ==
    /\ pc = "call"
    /\ depth' = depth + 1
    /\ configLoads' = configLoads + 1
    /\ \E file \in ConfigFiles :
        IF load_config(depth + 1, 0, file) # "config"
        THEN /\ Raise(load_config(depth + 1, 0, file))
             /\ UNCHANGED << sessions, streams >>
        ELSE /\ pc' = "read"
             /\ sessions' = sessions + 1
             /\ streams' = streams + 1
             /\ UNCHANGED crash
    \* the new activation's locals are not assigned yet
    /\ image_data' = NoImage
    /\ boxes' = <<>>
    /\ detected_objects' = <<>>
    /\ idx' = 0
    /\ timestamp' = NoTime
    /\ UNCHANGED << clock, ret, reads, mailCalls, dbCalls, intruder_log,
                    connections, modelLoads, stdout >>

\* Line 56 missing: a failed read falls through to line 58.
AfterRead_NoBreak(r) == "convert"

\* Lines 54-58: where control goes after video.read() returned ret = r: the
\* break of line 56 leaves the while loop.
AfterRead(r) == IF r THEN "convert" ELSE "sleep"

\* Lines 52-56: one video.read().
video_read ==
    /\ pc = "read"
    /\ \E r \in BOOLEAN :
        /\ ret' = r
        /\ IF r
           THEN /\ reads' = reads + 1
                /\ pc' = AfterRead(r)
                /\ UNCHANGED stdout
           ELSE /\ stdout' = Append(stdout, "camera_error")
                /\ pc' = AfterRead(r)
                /\ UNCHANGED reads
    /\ UNCHANGED << depth, sessions, clock, image_data, boxes,
                    detected_objects, idx, timestamp, mailCalls, dbCalls,
                    intruder_log, connections, streams, configLoads,
                    modelLoads, crash >>

\* Lines 58-59: the frame is converted and encoded.
convert_frame ==
    /\ pc = "convert"
    /\ \E ok \in BOOLEAN :
        IF ok
        THEN /\ image_data' = imencode(cvtColor([src |-> reads, swaps |-> 0, enc |-> 0]))
             /\ pc' = "predict"
             /\ UNCHANGED crash
        ELSE /\ Raise("FrameError")
             /\ UNCHANGED image_data
    /\ UNCHANGED << depth, sessions, clock, ret, reads, boxes,
                    detected_objects, idx, timestamp, mailCalls, dbCalls,
                    intruder_log, connections, streams, configLoads,
                    modelLoads, stdout >>

\* Line 115: one line is printed for every box.
RECURSIVE Printed(_, _)
Printed(out, bs) ==
    IF bs = <<>> THEN out ELSE Printed(Append(out, "probability"), Tail(bs))

\* Line 60 and lines 104-124: model_predict() re-reads the configuration,
\* loads the weights, runs the detector and filters its boxes.  A prediction
\* without boxes and an empty prediction list both give <<>>.  In the last
\* activation whose own load_config() fitted, the one of line 104 does not
\* fit for a valid file.
model_predict ==
    /\ pc = "predict"
    /\ \E file \in ConfigFiles,
          outcome \in {"ok", "load_error", "predict_error"},
          bs \in FrameInputs :
        /\ configLoads' = configLoads + 1
        /\ modelLoads' = IF /\ load_config(depth, 1, file) = "config"
                            /\ outcome \in {"ok", "predict_error"}
                         THEN modelLoads + 1 ELSE modelLoads
        /\ IF load_config(depth, 1, file) # "config"
           THEN /\ Raise(load_config(depth, 1, file))
                /\ UNCHANGED << boxes, detected_objects, stdout, idx >>
           ELSE IF outcome = "ok"
           THEN /\ boxes' = bs
                /\ detected_objects' = DetectedFrom(bs, 1)
                /\ stdout' = Printed(stdout, bs)
                /\ idx' = 1
                /\ pc' = "loop"
                /\ UNCHANGED crash
           ELSE /\ Raise("DetectionError")
                /\ UNCHANGED << boxes, detected_objects, stdout, idx >>
    /\ UNCHANGED << depth, sessions, clock, ret, reads, image_data, timestamp,
                    mailCalls, dbCalls, intruder_log, connections, streams >>

\* Line 71 missing: the while loop goes round to line 52.
LoopExit_Continue == "read"

\* Line 71: the break after the for loop leaves the while loop.
LoopExit == "sleep"

\* Lines 62-68 and 71: the for loop takes the next detected object and
\* stamps it when it passes the filter; after the last one the while loop
\* is left.
for_detected_object ==
    /\ pc = "loop"
    /\ IF idx > Len(detected_objects)
       THEN /\ pc' = LoopExit
            /\ UNCHANGED << idx, timestamp >>
       ELSE IF CaptureAdmits(detected_objects[idx])
       THEN /\ timestamp' = strftime(clock)
            /\ pc' = "mail"
            /\ UNCHANGED idx
       ELSE /\ idx' = idx + 1
            /\ UNCHANGED << pc, timestamp >>
    /\ UNCHANGED << depth, sessions, clock, ret, reads, image_data, boxes,
                    detected_objects, mailCalls, dbCalls, intruder_log,
                    connections, streams, configLoads, modelLoads, stdout,
                    crash >>

\* Lines 192-193 sending again instead of returning.
AfterMail_Retry(outcome) ==
    IF outcome = "sent" THEN "db"
    ELSE IF MailCaught(outcome) THEN "mail" ELSE "crashed"

\* Where control goes when mail_trigger ends with the given outcome: an
\* exception of the try block is printed and the call returns (192-193), any
\* other exception leaves video_capture.
AfterMail(outcome) ==
    IF outcome = "sent" \/ MailCaught(outcome) THEN "db" ELSE "crashed"

\* Lines 160 and 166: the timestamp as the subject shows it.
Subject(ts) == strftime(strptime(ts))

\* Line 69 and lines 152-193: one call of mail_trigger.
mail_trigger ==
    /\ pc = "mail"
    /\ \E outcome \in MailOutcomes, d \in SendTimes :
        /\ outcome # "sent" => d = 0
        /\ mailCalls' = Append(mailCalls,
                [frame |-> reads, box |-> detected_objects[idx].box,
                 image |-> image_data, timestamp |-> timestamp,
                 subject |-> Subject(timestamp), outcome |-> outcome])
        /\ clock' = clock + d
        /\ pc' = AfterMail(outcome)
        /\ crash' = IF AfterMail(outcome) # "crashed" THEN crash
                     ELSE IF outcome = "stack_error" THEN "RecursionError"
                     ELSE "MailError"
        /\ stdout' = IF outcome = "sent" THEN Append(stdout, "email_sent")
                     ELSE IF MailCaught(outcome) THEN Append(stdout, "email_failed")
                     ELSE stdout
    /\ UNCHANGED << depth, sessions, ret, reads, image_data, boxes,
                    detected_objects, idx, timestamp, dbCalls, intruder_log,
                    connections, streams, configLoads, modelLoads >>

\* database_entry with its exceptions caught by the caller.
AfterDb_Swallowed(outcome) == "loop"

\* The break of line 71 inside the for loop.
AfterDb_Break(outcome) == IF outcome = "stored" THEN "sleep" ELSE "crashed"

\* Where control goes when database_entry ends with the given outcome:
\* nothing catches its exceptions.
AfterDb(outcome) == IF outcome = "stored" THEN "loop" ELSE "crashed"

\* Lines 227-228: the bytes that are inserted.
image_bytes(image) == imencode(cvtColor(image))

\* Lines 231-233 overwriting the newest row instead of adding one.
insert_row_Replace(log, row) ==
    IF log = <<>> THEN <<row>> ELSE [log EXCEPT ![Len(log)] = row]

\* Lines 231-233: the INSERT, committed.
insert_row(log, row) == Append(log, row)

\* Line 70 and lines 220-236: one call of database_entry.
database_entry ==
    /\ pc = "db"
    /\ \E outcome \in DbOutcomes :
        /\ dbCalls' = Append(dbCalls,
                [frame |-> reads, box |-> detected_objects[idx].box,
                 image |-> image_data, timestamp |-> timestamp,
                 outcome |-> outcome])
        /\ intruder_log' =
                IF outcome = "stored"
                THEN insert_row(intruder_log,
                        [image |-> image_bytes(image_data),
                         captured_time |-> timestamp])
                ELSE intruder_log
        /\ connections' =
                IF DbConnected(outcome) /\ ~DbClosed(outcome)
                THEN connections + 1 ELSE connections
        /\ pc' = AfterDb(outcome)
        /\ crash' = IF AfterDb(outcome) = "crashed" THEN "StoreError" ELSE crash
        /\ idx' = IF outcome = "stored" THEN idx + 1 ELSE idx
    /\ UNCHANGED << depth, sessions, clock, ret, reads, image_data, boxes,
                    detected_objects, timestamp, mailCalls, streams,
                    configLoads, modelLoads, stdout >>

\* Lines 73-74 missing: the restart follows at once.
restart_delay_NoSleep ==
    /\ pc = "sleep"
    /\ pc' = "call"
    /\ UNCHANGED << depth, sessions, clock, ret, reads, image_data, boxes,
                    detected_objects, idx, timestamp, mailCalls, dbCalls,
                    intruder_log, connections, streams, configLoads,
                    modelLoads, stdout, crash >>

\* Lines 73-74: time.sleep(delay_time); line 76 follows.
restart_delay ==
    /\ pc = "sleep"
    /\ clock' = clock + DelayTime
    /\ pc' = "call"
    /\ UNCHANGED << depth, sessions, ret, reads, image_data, boxes,
                    detected_objects, idx, timestamp, mailCalls, dbCalls,
                    intruder_log, connections, streams, configLoads,
                    modelLoads, stdout, crash >>

Next ==
    \/ video_capture_call
    \/ video_read
    \/ convert_frame
    \/ model_predict
    \/ for_detected_object
    \/ mail_trigger
    \/ database_entry
    \/ restart_delay

Spec == Init /\ [][Next]_vars

(***************************************************************************)
(* Shorthands of the properties below.                                     *)
(***************************************************************************)
Last(seq) == seq[Len(seq)]

\* The boxes of the frame in hand are in boxes once model_predict returned.
FrameInHand == idx >= 1

\* The frame in hand went through the whole loop and no call raised.
FrameDone == pc = "sleep" /\ ret

MailedBoxes(f) == { i \in 1..Len(mailCalls) : mailCalls[i].frame = f }
StoredBoxes(f) == { i \in 1..Len(dbCalls) : dbCalls[i].frame = f }
RowsOf(f) == { i \in 1..Len(intruder_log) : intruder_log[i].image.src = f }

Mailed(f, b) == \E i \in MailedBoxes(f) : mailCalls[i].box = b
DbCalled(f, b) == \E i \in StoredBoxes(f) : dbCalls[i].box = b

\* database_entry was called for the event of mail call m.
Persisted(m) ==
    \E j \in 1..Len(dbCalls) :
        /\ dbCalls[j].frame = m.frame
        /\ dbCalls[j].box = m.box
        /\ dbCalls[j].image = m.image
        /\ dbCalls[j].timestamp = m.timestamp

\* C1: a mail_trigger call that failed, whatever the cause, is followed by
\* the database_entry call of the same event (same image, same timestamp)
\* and does not end the process: either database_entry is the next thing to
\* run, or it has been called for the event.
C1_DispatchFailureAbsorbed ==
    \A i \in 1..Len(mailCalls) :
        mailCalls[i].outcome # "sent" =>
            \/ i = Len(mailCalls) /\ pc = "db"
            \/ Persisted(mailCalls[i])

\* The confidence itself is above 0.5.
AboveHalf(box) == box.conf > 500 \/ (box.conf = 500 /\ ~box.exact)

\* C2 as stated: once a frame is processed, a box of it has an event (a
\* mail_trigger and a database_entry call) exactly when its class is
\* "Intruder" and its confidence is above 0.5.
C2_EventIffAboveHalf ==
    FrameDone =>
        \A b \in 1..Len(boxes) :
            (Mailed(reads, b) /\ DbCalled(reads, b))
                <=> (boxes[b].cls = "Intruder" /\ AboveHalf(boxes[b]))

\* The two-decimal probability of a box exceeds 0.5 and its class is Intruder.
Qualifies(box) == box.cls = "Intruder" /\ round2(box.conf, box.exact) > 50

\* C3: of two events less than the cool-down window apart only the first
\* reaches mail_trigger and database_entry, so any two calls of either are
\* at least the window apart.
C3_OnlyFirstWithinWindow ==
    /\ \A i, j \in 1..Len(mailCalls) :
          i < j => strptime(mailCalls[j].timestamp)
                     - strptime(mailCalls[i].timestamp) >= DelayTime
    /\ \A i, j \in 1..Len(dbCalls) :
          i < j => strptime(dbCalls[j].timestamp)
                     - strptime(dbCalls[i].timestamp) >= DelayTime

\* C4: after a failed read the process does not exit: the call that follows
\* the delay opens the source again, so the process is never found ended
\* with a failed read as the last thing a session did.
C4_FaultNeverExits ==
    ~(pc = "crashed" /\ sessions >= 1 /\ ~ret)

\* C5: a failed database_entry call is the last thing the pipeline does: the
\* process has ended with its exception, the failed call is the last call,
\* no frame was read and no mail_trigger call was made after it, and the
\* table holds only the rows of the calls before it.
C5_StoreErrorTerminates ==
    \A i \in 1..Len(dbCalls) :
        dbCalls[i].outcome # "stored" =>
            /\ i = Len(dbCalls)
            /\ pc = "crashed" /\ crash = "StoreError"
            /\ reads = dbCalls[i].frame
            /\ mailCalls # <<>>
            /\ Last(mailCalls).frame = dbCalls[i].frame
            /\ Last(mailCalls).box = dbCalls[i].box
            /\ Len(mailCalls) = i
            /\ Len(intruder_log) = i - 1

\* A commit failed after an earlier event was stored.
C5_Witness ==
    /\ pc = "crashed"
    /\ Len(dbCalls) = 2
    /\ Last(dbCalls).outcome = "commit_error"
    /\ Len(intruder_log) = 1

\* C6: the process ends only with a StoreError or with an exception of the
\* first lines 48-49.
C6_OnlyStoreOrStartingTerminates ==
    pc = "crashed" => crash = "StoreError" \/ sessions = 0

\* C7: no event has two mail_trigger calls or two database_entry calls, and
\* a frame processed without failure with k qualifying boxes has exactly k
\* mail_trigger calls, k database_entry calls and k rows.
C7_OnePairPerEvent ==
    /\ \A i, j \in 1..Len(mailCalls) :
          mailCalls[i].frame = mailCalls[j].frame
              /\ mailCalls[i].box = mailCalls[j].box => i = j
    /\ \A i, j \in 1..Len(dbCalls) :
          dbCalls[i].frame = dbCalls[j].frame
              /\ dbCalls[i].box = dbCalls[j].box => i = j
    /\ FrameDone =>
          LET k == Cardinality({ b \in 1..Len(boxes) : Qualifies(boxes[b]) })
          IN  /\ Cardinality(MailedBoxes(reads)) = k
              /\ Cardinality(StoredBoxes(reads)) = k
              /\ Cardinality(RowsOf(reads)) = k

\* A frame with two qualifying boxes was processed, the first mail failing.
C7_Witness ==
    /\ FrameDone
    /\ boxes = <<I830, I510>>
    /\ Cardinality(MailedBoxes(reads)) = 2
    /\ Cardinality(StoredBoxes(reads)) = 2
    /\ \E i \in MailedBoxes(reads) : mailCalls[i].outcome = "auth_error"

\* C8: no connection opened by a database_entry call is still open once the
\* call has ended.
C8_ConnectionReleased ==
    connections = 0

\* C9: the call depth stays that of a loop: one activation of video_capture.
C9_CallDepthBounded ==
    depth <= 1

NonDecreasing(seq) ==
    \A i, j \in 1..Len(seq) : i < j => seq[i] <= seq[j]

\* C10: the mail_trigger calls, the database_entry calls and the rows are in
\* the order of their frames, a frame's calls in the order of its boxes, and
\* whenever a frame can be read nothing of an earlier frame is outstanding:
\* every event notified has been stored, and a processed frame has had every
\* detected object dispatched.
C10_SequentialInCaptureOrder ==
    /\ NonDecreasing([i \in 1..Len(mailCalls) |-> mailCalls[i].frame])
    /\ NonDecreasing([i \in 1..Len(dbCalls) |-> dbCalls[i].frame])
    /\ NonDecreasing([i \in 1..Len(intruder_log) |-> intruder_log[i].image.src])
    /\ \A i \in 1..Len(dbCalls) :
          /\ i <= Len(mailCalls)
          /\ dbCalls[i].frame = mailCalls[i].frame
          /\ dbCalls[i].box = mailCalls[i].box
    /\ \A i \in 1..Len(intruder_log) :
          intruder_log[i].captured_time = dbCalls[i].timestamp
    /\ pc \in {"sleep", "call", "read", "convert", "predict"} =>
          /\ Len(dbCalls) = Len(mailCalls)
          /\ Len(intruder_log) = Len(dbCalls)
    /\ FrameDone =>
          Cardinality(StoredBoxes(reads)) = Len(detected_objects)

\* Two frames each gave an event; both are stored, in order.
C10_Witness ==
    /\ Len(intruder_log) = 2
    /\ intruder_log[1].image.src = 1
    /\ intruder_log[2].image.src = 2
    /\ FrameDone

\* C11: at most one stream handle is open, whatever the number of restarts.
C11_OneStreamOpen ==
    streams <= 1

\* C12: the detection model is loaded once, however many frames are passed
\* to model_predict.
C12_ModelLoadedOnce ==
    modelLoads <= 1

\* C13: load_config is called once, before the pipeline runs, and a
\* ConfigurationError ends the process only before the first session.
C13_ConfigLoadedOnce ==
    /\ configLoads <= 1
    /\ crash = "ConfigurationError" => sessions = 0

\* C14: every step leaves intruder_log unchanged or appends exactly one row
\* to it, the row of a database_entry call that committed; no row is changed
\* or removed.
C14_AppendOnly ==
    [][ \/ intruder_log' = intruder_log
        \/ /\ Len(intruder_log') = Len(intruder_log) + 1
           /\ SubSeq(intruder_log', 1, Len(intruder_log)) = intruder_log
           /\ pc = "db"
           /\ Len(dbCalls') = Len(dbCalls) + 1
           /\ Last(dbCalls').outcome = "stored"
           /\ Last(intruder_log').captured_time = Last(dbCalls').timestamp
           /\ Last(intruder_log').image.src = Last(dbCalls').frame ]_vars

\* Two rows were committed one after the other.
C14_Witness ==
    /\ Len(intruder_log) = 2
    /\ Len(dbCalls) = 2
    /\ Last(dbCalls).outcome = "stored"

\* C15: every row holds the bytes of the evidence image that video_capture
\* produced and handed to mail_trigger and database_entry, and the timestamp
\* given to the notification of the same event.
C15_RowRoundTrip ==
    \A i \in 1..Len(intruder_log) :
        /\ intruder_log[i].image = dbCalls[i].image
        /\ intruder_log[i].image = mailCalls[i].image
        /\ intruder_log[i].captured_time = mailCalls[i].timestamp

\* The calls of video.read() made so far: the successful ones and the
\* failed ones, each of which printed its line.
ReadCalls ==
    reads + Cardinality({ i \in 1..Len(stdout) : stdout[i] = "camera_error" })

\* C16: a session makes one video.read() and no more: there are as many
\* reads as sessions once the session's read is made, and one less before.
C16_OneReadPerSession ==
    /\ ReadCalls <= sessions
    /\ pc = "read" => ReadCalls = sessions - 1
    /\ pc \in {"convert", "predict", "loop", "mail", "db", "sleep"}
          => ReadCalls = sessions

\* The second session has left its loop after a frame without an event; the
\* first one left it after a frame too.
C16_Witness ==
    /\ FrameDone
    /\ sessions = 2
    /\ reads = 2
    /\ boxes = <<I400>>
    /\ mailCalls = <<>>

\* C17: a read is reached only through the call that follows the sleep of
\* delay_time, time does not go back, and two mail_trigger calls (two
\* database_entry calls) of different frames have timestamps at least
\* delay_time apart.
C17_DelayBetweenFrames ==
    /\ [][ /\ pc' = "read" => pc = "call"
           /\ pc' = "call" => pc = "sleep" /\ clock' = clock + DelayTime
           /\ clock' >= clock ]_vars
    /\ [](\A i, j \in 1..Len(mailCalls) :
            i < j /\ mailCalls[i].frame # mailCalls[j].frame
                => strptime(mailCalls[j].timestamp)
                     - strptime(mailCalls[i].timestamp) >= DelayTime)
    /\ [](\A i, j \in 1..Len(dbCalls) :
            i < j /\ dbCalls[i].frame # dbCalls[j].frame
                => strptime(dbCalls[j].timestamp)
                     - strptime(dbCalls[i].timestamp) >= DelayTime)

\* Two frames gave an event each, the second exactly delay_time after the
\* first.
C17_Witness ==
    /\ Len(dbCalls) = 2
    /\ dbCalls[1].frame = 1
    /\ dbCalls[2].frame = 2
    /\ strptime(mailCalls[2].timestamp) - strptime(mailCalls[1].timestamp) = DelayTime

\* C18: database_entry has been called at most as often as mail_trigger and
\* at least as often but once; each of its calls, and so each row, is for
\* the event of the mail_trigger call of the same position.
C18_MailBeforeStore ==
    /\ Len(dbCalls) <= Len(mailCalls)
    /\ Len(dbCalls) >= Len(mailCalls) - 1
    /\ Len(intruder_log) <= Len(dbCalls)
    /\ \A i \in 1..Len(dbCalls) :
          /\ dbCalls[i].frame = mailCalls[i].frame
          /\ dbCalls[i].box = mailCalls[i].box
          /\ dbCalls[i].timestamp = mailCalls[i].timestamp
    /\ \A i \in 1..Len(intruder_log) :
          /\ intruder_log[i].image.src = mailCalls[i].frame
          /\ intruder_log[i].captured_time = mailCalls[i].timestamp

\* A failed insert left an event notified and not logged.
C18_Witness ==
    /\ crash = "StoreError"
    /\ Last(dbCalls).outcome = "insert_error"
    /\ Last(mailCalls).outcome = "sent"
    /\ Len(mailCalls) = Len(intruder_log) + 1

\* C19: the failed read of a session prints its line and leaves the loop,
\* and the sleep follows; neither step calls model_predict, mail_trigger or
\* database_entry, nor changes intruder_log.
C19_FailedReadNoEffect ==
    [][ /\ (pc = "read" /\ ~ret') =>
              /\ stdout' = Append(stdout, "camera_error")
              /\ pc' = "sleep"
              /\ UNCHANGED << clock, reads, modelLoads, configLoads, mailCalls,
                              dbCalls, intruder_log, connections >>
        /\ (pc = "sleep" /\ ~ret) =>
              /\ pc' = "call"
              /\ clock' = clock + DelayTime
              /\ UNCHANGED << stdout, reads, modelLoads, configLoads,
                              mailCalls, dbCalls, intruder_log, connections >> ]_vars

\* The second session's read failed after the first one had logged an event.
C19_Witness ==
    /\ pc = "sleep"
    /\ ~ret
    /\ sessions = 2
    /\ Last(stdout) = "camera_error"
    /\ Len(intruder_log) = 1

====
